---- MODULE Spec2Model ----
(***************************************************************************)
(* The experimental register VM of boa: the two bytecode compilers         *)
(* (vm/mod.rs, over Expr, and vm/compilation/mod.rs, over Node) and the    *)
(* virtual machine of vm/mod.rs that runs what they emit.                  *)
(***************************************************************************)
EXTENDS Integers, Sequences, FiniteSets, TLC

\* vec![undefined(); 8]: the size of the register file.
NumRegs == 8
\* Reg(u8) and next_free: u8: the cursor is an 8-bit integer.
U8Size == 256

\* Bounds of the model.
MaxChain == 9
MaxStmts == 8
MaxCompiles == 2
MaxRuns == 2

(***************************************************************************)
(* Values.  A number literal n is Number(n); the tested program            *)
(* 7 + 4 + 1.1 is written in tenths (70 + 40 + 11 = 121).                  *)
(***************************************************************************)
undefined == [t |-> "undefined", x |-> 0]
Number(n) == [t |-> "number", x |-> n]
NaN == [t |-> "nan", x |-> 0]

\* Value + Value of the value system: numbers add, undefined coerces to NaN.
ValueAdd(a, b) ==
  IF a.t = "number" /\ b.t = "number" THEN Number(a.x + b.x) ELSE NaN

(***************************************************************************)
(* The AST.  Every node is a record of the same shape; kids are the        *)
(* sub-nodes in source order.                                              *)
(***************************************************************************)
MkNode(k, v, op, n, kids) == [k |-> k, v |-> v, op |-> op, n |-> n, kids |-> kids]
\* Const::Num(x)
Lit(v) == MkNode("Num", v, "", "", <<>>)
\* Const::String(s): a node kind neither compiler supports
StrLit == MkNode("Str", 0, "", "", <<>>)
\* BinOp(op, l, r)
Bin(op, l, r) == MkNode("BinOp", 0, op, "", <<l, r>>)
Plus(l, r) == Bin("Add", l, r)
\* one (ident, init) pair of a declaration list
Binding(n, init) == MkNode("Binding", 0, "", n, <<init>>)
\* ConstDecl(decls) / ConstDeclList(xs)
ConstDecl(bs) == MkNode("ConstDecl", 0, "", "", bs)
\* Block(exprs) / StatementList
Block(ss) == MkNode("Block", 0, "", "", ss)

(***************************************************************************)
(* Instructions: In / Instruction.                                         *)
(***************************************************************************)
MkIn(op, r, dest, src, val, ident) ==
  [op |-> op, r |-> r, dest |-> dest, src |-> src, val |-> val, ident |-> ident]
Ld(r, v) == MkIn("Ld", r, 0, 0, v, "")
Bind(r, ident) == MkIn("Bind", r, 0, 0, undefined, ident)
Add(dest, src) == MkIn("Add", 0, dest, src, undefined, "")

\* The register operands of an instruction.
Operands(i) == IF i.op = "Add" THEN {i.dest, i.src} ELSE {i.r}

(***************************************************************************)
(* Compiler state: the fields res and next_free, and st, which is "ok"     *)
(* until a panic!() / unimplemented!() unwinds the compilation.            *)
(***************************************************************************)
NewCompilerState == [res |-> <<>>, next_free |-> 0, st |-> "ok"]
push(c, i) == [c EXCEPT !.res = Append(@, i)]
panic(c) == [c EXCEPT !.st = "panic"]

\* a cursor that skips a register
ExprTmp_Skip(free) == (free + 2) % U8Size
\* let tmp = free + 1 (u8 arithmetic, wrapping as a release build does; the
\* cursor stays far below 255 within the bounds)
ExprTmp(free) == (free + 1) % U8Size
\* the right operand compiled into the register of the left one
NodeSrc_Same(dest) == dest
\* let src = dest + 1 (u8 arithmetic)
NodeSrc(dest) == (dest + 1) % U8Size

RECURSIVE compile_expr(_, _)
RECURSIVE compile_exprs(_, _)
RECURSIVE compile_decls(_, _)

\* Compiler::compile_expr of vm/mod.rs
compile_expr(c, e) ==
  IF c.st # "ok" THEN c
  ELSE IF e.k = "Block" THEN compile_exprs(c, e.kids)
  ELSE IF e.k = "ConstDecl" THEN compile_decls(c, e.kids)
  ELSE IF e.k = "Num" THEN push(c, Ld(c.next_free, Number(e.v)))
  ELSE IF e.k = "BinOp" THEN
    LET free == c.next_free
        tmp == ExprTmp(free)
        c1 == compile_expr(c, e.kids[1])
        c2 == IF c1.st # "ok" THEN c1
              ELSE compile_expr([c1 EXCEPT !.next_free = tmp], e.kids[2])
    IN IF c2.st # "ok" THEN c2 ELSE push(c2, Add(free, tmp))
  ELSE panic(c)

\* for e in exprs { self.compile_expr(e) }
compile_exprs(c, es) ==
  IF es = <<>> THEN c ELSE compile_exprs(compile_expr(c, Head(es)), Tail(es))

\* for (ident, e) in decls { compile_expr(e); push(Bind(Reg(next_free), ident)) }
compile_decls(c, ds) ==
  IF ds = <<>> THEN c
  ELSE LET c1 == compile_expr(c, Head(ds).kids[1])
           c2 == IF c1.st # "ok" THEN c1
                 ELSE push(c1, Bind(c1.next_free, Head(ds).n))
       IN compile_decls(c2, Tail(ds))

RECURSIVE Node_compile(_, _)
RECURSIVE Node_compile_decls(_, _)
RECURSIVE Node_compile_stmts(_, _)

\* <Node as CodeGen>::compile and <BinOp as CodeGen>::compile of vm/compilation/mod.rs
Node_compile(c, e) ==
  IF c.st # "ok" THEN c
  ELSE IF e.k = "Int" \/ e.k = "Num" THEN push(c, Ld(c.next_free, Number(e.v)))
  ELSE IF e.k = "BinOp" THEN
    LET dest == c.next_free
        src == NodeSrc(dest)
        c1 == Node_compile(c, e.kids[1])
        c2 == IF c1.st # "ok" THEN c1
              ELSE Node_compile([c1 EXCEPT !.next_free = src], e.kids[2])
        c3 == [c2 EXCEPT !.next_free = dest]
    IN IF c2.st # "ok" THEN c2
       ELSE IF e.op = "Add" THEN push(c3, Add(dest, src))
       ELSE panic(c3)
  ELSE IF e.k = "ConstDecl" THEN Node_compile_decls(c, e.kids)
  ELSE panic(c)

\* for x in xs { x.init().compile(); push(Bind(Reg(next_free), x.name())) }
Node_compile_decls(c, ds) ==
  IF ds = <<>> THEN c
  ELSE LET c1 == Node_compile(c, Head(ds).kids[1])
           c2 == IF c1.st # "ok" THEN c1
                 ELSE push(c1, Bind(c1.next_free, Head(ds).n))
       IN Node_compile_decls(c2, Tail(ds))

\* for stmt in list.statements() { stmt.compile(self) }
Node_compile_stmts(c, ss) ==
  IF ss = <<>> THEN c ELSE Node_compile_stmts(Node_compile(c, Head(ss)), Tail(ss))

\* Compiler::compile of either compiler, on the compiler state c: the walk.
\* (The caller takes res, which std::mem::replace leaves empty.)
compile(which, c, p) ==
  IF which = "Expr" THEN compile_expr(c, p) ELSE Node_compile_stmts(c, p.kids)

(***************************************************************************)
(* The Environment of the Realm: a list of binding records.  The scope     *)
(* chain is code of boa outside vm/; only the four operations Bind calls   *)
(* are modelled.  A lookup finds the first record of the name.             *)
(***************************************************************************)
has_binding(e, name) == \E i \in DOMAIN e : e[i].name = name
FirstOf(e, name) == CHOOSE i \in DOMAIN e : e[i].name = name /\ \A j \in 1..(i - 1) : e[j].name # name
create_mutable_binding(e, name) ==
  Append(e, [name |-> name, value |-> undefined, initialized |-> FALSE])
initialize_binding(e, name, val) ==
  IF has_binding(e, name)
  THEN [e EXCEPT ![FirstOf(e, name)] = [@ EXCEPT !.value = val, !.initialized = TRUE]]
  ELSE e
set_mutable_binding(e, name, val) ==
  IF has_binding(e, name)
  THEN [e EXCEPT ![FirstOf(e, name)] = [@ EXCEPT !.value = val]]
  ELSE e
get_binding_value(e, name) ==
  IF has_binding(e, name) THEN e[FirstOf(e, name)].value ELSE undefined
\* how many binding records the environment holds for name
BindingCount(e, name) == Cardinality({i \in DOMAIN e : e[i].name = name})

(***************************************************************************)
(* The VM's register file and the effect of each opcode.                   *)
(***************************************************************************)
Regs == 0..(NumRegs - 1)
\* VM::new: regs = vec![undefined(); 8]
NewRegs == [r \in Regs |-> undefined]
\* a clear that leaves the value in the register
clear_Keep(rs, reg) == rs
\* VM::clear: the register file after clear(reg); clear returns rs[reg]
clear(rs, reg) == [rs EXCEPT ![reg] = undefined]

\* a load that leaves a register alone once it holds a value
ExecLd_KeepDefined(rs, i) == IF rs[i.r] = undefined THEN [rs EXCEPT ![i.r] = i.val] ELSE rs
\* In::Ld(r, v): self.regs[r] = v.clone()
ExecLd(rs, i) == [rs EXCEPT ![i.r] = i.val]

\* an Add that leaves the sum in register 0
ExecAdd_ToReg0(rs, i) ==
  [clear(clear(rs, i.dest), i.src) EXCEPT ![0] = ValueAdd(rs[i.dest], rs[i.src])]
\* an Add that reads src without clearing it
ExecAdd_KeepSrc(rs, i) ==
  [rs EXCEPT ![i.dest] = ValueAdd(rs[i.dest], rs[i.src])]
\* In::Add { dest, src }: res = clear(dest) + clear(src); regs[dest] = res
ExecAdd(rs, i) ==
  LET a == rs[i.dest]
      rs1 == clear(rs, i.dest)
      b == rs1[i.src]
      rs2 == clear(rs1, i.src)
  IN [rs2 EXCEPT ![i.dest] = ValueAdd(a, b)]

\* a Bind that declares without asking has_binding
BindEnv_AlwaysCreate(e, ident, val) ==
  initialize_binding(create_mutable_binding(e, ident), ident, val)

\* In::Bind(r, ident): the environment after the branch on has_binding
BindEnv(e, ident, val) ==
  IF has_binding(e, ident)
  THEN set_mutable_binding(e, ident, val)
  ELSE initialize_binding(create_mutable_binding(e, ident), ident, val)

\* In::Bind(r, ident): the Environment calls it makes, in order
BindCalls_InitFirst(e, ident, val) ==
  IF has_binding(e, ident)
  THEN << [op |-> "has_binding", name |-> ident, val |-> undefined],
          [op |-> "set_mutable_binding", name |-> ident, val |-> val] >>
  ELSE << [op |-> "has_binding", name |-> ident, val |-> undefined],
          [op |-> "initialize_binding", name |-> ident, val |-> val],
          [op |-> "create_mutable_binding", name |-> ident, val |-> undefined] >>
BindCalls(e, ident, val) ==
  IF has_binding(e, ident)
  THEN << [op |-> "has_binding", name |-> ident, val |-> undefined],
          [op |-> "set_mutable_binding", name |-> ident, val |-> val] >>
  ELSE << [op |-> "has_binding", name |-> ident, val |-> undefined],
          [op |-> "create_mutable_binding", name |-> ident, val |-> undefined],
          [op |-> "initialize_binding", name |-> ident, val |-> val] >>

\* a loop that steps over an instruction
NextIdx_Skip(i) == i + 2
\* a run() that returns another register
RunResult_Reg1(rs) == rs[1]

\* idx += 1
NextIdx(i) == i + 1
\* Ok(self.regs[0].clone())
RunResult(rs) == rs[0]

\* a fault that undoes the bindings
FaultEnv_Rollback(e) == <<>>
\* the environment after the indexing panic unwinds out of run(): nothing
\* in run() or clear() touches it on the way
FaultEnv(e) == e

\* self.regs[r.0 as usize] panics when an operand is not an index of regs
InRange(i) == \A r \in Operands(i) : r \in Regs
AllInRange(is) == \A k \in DOMAIN is : InRange(is[k])

(***************************************************************************)
(* Input programs.                                                         *)
(***************************************************************************)
RECURSIVE RChain(_)
\* n + (n-1 + (... + 1)): n literals nested to the right, depth n
RChain(n) == IF n <= 1 THEN Lit(1) ELSE Plus(Lit(n), RChain(n - 1))
RECURSIVE LChain(_)
\* ((1 + 2) + ...) + n: n literals nested to the left, depth n
LChain(n) == IF n <= 1 THEN Lit(1) ELSE Plus(LChain(n - 1), Lit(n))
\* 7 + 4 + 1.1, in tenths
Tested == Plus(Plus(Lit(70), Lit(40)), Lit(11))
Balanced == Plus(Plus(Lit(1), Lit(2)), Plus(Lit(3), Lit(4)))
RECURSIVE Repeat(_, _)
Repeat(x, n) == IF n = 0 THEN <<>> ELSE <<x>> \o Repeat(x, n - 1)

DeclOf(name, e) == Block(<<ConstDecl(<<Binding(name, e)>>)>>)
StmtOf(e) == Block(<<e>>)

\* declarations and expression statements over trees of numeric literals
\* joined by +: within the register file, and one past it
PlusPrograms ==
  { DeclOf("x", Lit(1)),
    DeclOf("x", Tested),
    DeclOf("x", RChain(MaxChain - 1)),
    StmtOf(LChain(3)),
    StmtOf(Balanced),
    StmtOf(RChain(MaxChain)),
    Block(Repeat(Plus(Lit(1), Lit(2)), MaxStmts)) }

\* the same name declared twice, and two names in one list
DeclPrograms ==
  { Block(<<ConstDecl(<<Binding("x", Lit(1))>>), ConstDecl(<<Binding("x", Lit(2))>>)>>),
    Block(<<ConstDecl(<<Binding("x", Plus(Lit(1), Lit(2))), Binding("y", Lit(5))>>)>>) }

\* a node kind and an operator outside Num and +
OtherPrograms ==
  { StmtOf(StrLit),
    StmtOf(Bin("Sub", Lit(3), Lit(1))) }

\* a declaration, then an expression one register past the register file
FaultPrograms ==
  { Block(<<ConstDecl(<<Binding("y", Lit(3))>>), RChain(MaxChain)>>) }

Programs == PlusPrograms \cup DeclPrograms \cup OtherPrograms \cup FaultPrograms

(***************************************************************************)
(* The state.                                                              *)
(***************************************************************************)
VARIABLES
  impl,        \* which compiler is in use: "Expr" (vm/mod.rs) or "Node" (vm/compilation)
  res,         \* Compiler.res
  next_free,   \* Compiler.next_free
  ast,         \* the program given to the latest compile()
  entry_free,  \* next_free when the latest compile() was entered
  out,         \* the Vec<In> the latest compile() returned
  hist,        \* the completed compile() calls: program, result, cursor at entry and exit
  status,      \* "idle", "compiled", "running", "done" or "panic"
  fault,       \* where the panic unwound from: "none", "compile" or "run"
  regs,        \* VM.regs
  env,         \* VM.realm.environment
  idx,         \* run()'s idx
  trace,       \* the indices run() has dispatched in the current call
  calls,       \* the Environment calls made so far
  result,      \* what the latest run() returned
  runs,        \* number of run() calls started
  start_regs,  \* VM.regs when the current (or latest) run() was entered
  ran          \* the instruction sequence of the latest run() that returned

vars == << impl, res, next_free, ast, entry_free, out, hist, status, fault,
           regs, env, idx, trace, calls, result, runs, start_regs, ran >>

compilerVars == << impl, res, next_free, ast, entry_free, out, hist >>
vmVars == << regs, env, idx, trace, calls, result, runs, start_regs, ran >>

NoValue == [t |-> "none", x |-> 0]

Init ==
  /\ impl \in {"Expr", "Node"}
  /\ res = <<>>
  /\ next_free = 0
  /\ ast = Block(<<>>)
  /\ entry_free = 0
  /\ out = <<>>
  /\ hist = <<>>
  /\ status = "idle"
  /\ fault = "none"
  /\ regs = NewRegs
  /\ env = <<>>
  /\ idx = 0
  /\ trace = <<>>
  /\ calls = <<>>
  /\ result = NoValue
  /\ runs = 0
  /\ start_regs = NewRegs
  /\ ran = <<>>

\* Compiler::compile(p) on a Compiler in state c0: the walk, then
\* std::mem::replace(&mut self.res, Vec::new())
CompileFrom(c0, p) ==
  /\ Len(hist) < MaxCompiles
  /\ LET c == compile(impl, c0, p)
     IN /\ next_free' = c.next_free
        /\ IF c.st = "ok"
           THEN /\ res' = <<>>
                /\ out' = c.res
                /\ status' = "compiled"
                /\ fault' = fault
                /\ hist' = Append(hist, [ast |-> p, out |-> c.res, entry |-> c0.next_free,
                                         exit |-> c.next_free])
           ELSE /\ res' = c.res
                /\ out' = <<>>
                /\ status' = "panic"
                /\ fault' = "compile"
                /\ hist' = hist
  /\ ast' = p
  /\ entry_free' = c0.next_free
  /\ UNCHANGED impl
  /\ UNCHANGED vmVars

\* Compiler::new().compile(p)
CompileNew(p) ==
  /\ status \in {"idle", "compiled", "done"}
  /\ CompileFrom(NewCompilerState, p)

\* compile(p) on the Compiler that did the latest compile()
CompileAgain(p) ==
  /\ status \in {"compiled", "done"}
  /\ CompileFrom([res |-> res, next_free |-> next_free, st |-> "ok"], p)

\* VM::run(&instrs) is entered: let mut idx = 0
StartRun ==
  /\ status \in {"compiled", "done"}
  /\ runs < MaxRuns
  /\ status' = "running"
  /\ idx' = 0
  /\ trace' = <<>>
  /\ runs' = runs + 1
  /\ start_regs' = regs
  /\ UNCHANGED << regs, env, calls, result, fault, ran >>
  /\ UNCHANGED compilerVars

\* the instruction run() is about to dispatch
Cur == out[idx + 1]
Dispatching(op) ==
  /\ status = "running"
  /\ idx < Len(out)
  /\ Cur.op = op

RunLd ==
  /\ Dispatching("Ld")
  /\ InRange(Cur)
  /\ regs' = ExecLd(regs, Cur)
  /\ idx' = NextIdx(idx)
  /\ trace' = Append(trace, idx)
  /\ UNCHANGED << env, calls, result, runs, status, fault, start_regs, ran >>
  /\ UNCHANGED compilerVars

RunAdd ==
  /\ Dispatching("Add")
  /\ InRange(Cur)
  /\ regs' = ExecAdd(regs, Cur)
  /\ idx' = NextIdx(idx)
  /\ trace' = Append(trace, idx)
  /\ UNCHANGED << env, calls, result, runs, status, fault, start_regs, ran >>
  /\ UNCHANGED compilerVars

RunBind ==
  /\ Dispatching("Bind")
  /\ InRange(Cur)
  /\ regs' = clear(regs, Cur.r)
  /\ env' = BindEnv(env, Cur.ident, regs[Cur.r])
  /\ calls' = calls \o BindCalls(env, Cur.ident, regs[Cur.r])
  /\ idx' = NextIdx(idx)
  /\ trace' = Append(trace, idx)
  /\ UNCHANGED << result, runs, status, fault, start_regs, ran >>
  /\ UNCHANGED compilerVars

\* an operand is not an index of regs: the indexing panics.  Add clears dest
\* before it indexes src.
RunPanic ==
  /\ status = "running"
  /\ idx < Len(out)
  /\ ~InRange(Cur)
  /\ regs' = IF Cur.op = "Add" /\ Cur.dest \in Regs THEN clear(regs, Cur.dest) ELSE regs
  /\ trace' = Append(trace, idx)
  /\ env' = FaultEnv(env)
  /\ status' = "panic"
  /\ fault' = "run"
  /\ UNCHANGED << idx, calls, result, runs, start_regs, ran >>
  /\ UNCHANGED compilerVars

\* the loop ends: Ok(self.regs[0].clone())
RunReturn ==
  /\ status = "running"
  /\ idx >= Len(out)
  /\ result' = RunResult(regs)
  /\ ran' = out
  /\ status' = "done"
  /\ UNCHANGED << regs, env, idx, trace, calls, runs, fault, start_regs >>
  /\ UNCHANGED compilerVars

RunStep == RunLd \/ RunAdd \/ RunBind \/ RunPanic \/ RunReturn

Next ==
  \/ \E p \in Programs : CompileNew(p)
  \/ \E p \in Programs : CompileAgain(p)
  \/ StartRun
  \/ RunLd
  \/ RunAdd
  \/ RunBind
  \/ RunPanic
  \/ RunReturn

Spec == Init /\ [][Next]_vars

\* run() is a plain loop without a suspension point: once entered it keeps
\* dispatching until it returns or panics.
FairSpec == Spec /\ WF_vars(RunStep)

(***************************************************************************)
(* Vocabulary of the properties.                                           *)
(***************************************************************************)
Names == {"x", "y"}

RECURSIVE IsPlusTree(_)
\* a tree of numeric literals joined by +
IsPlusTree(e) ==
  \/ e.k = "Num"
  \/ e.k = "BinOp" /\ e.op = "Add" /\ IsPlusTree(e.kids[1]) /\ IsPlusTree(e.kids[2])

RECURSIVE Sum(_)
\* the arithmetic sum of the literals of a tree
Sum(e) == IF e.k = "BinOp" THEN Sum(e.kids[1]) + Sum(e.kids[2]) ELSE e.v

Max2(a, b) == IF a >= b THEN a ELSE b

RECURSIVE Depth(_)
\* the depth of a tree: a single literal has depth 1
Depth(e) == IF e.k = "BinOp" THEN 1 + Max2(Depth(e.kids[1]), Depth(e.kids[2])) ELSE 1

RECURSIVE RightNested(_)
\* every left operand is a literal
RightNested(e) == e.k = "BinOp" => (e.kids[1].k # "BinOp" /\ RightNested(e.kids[2]))

\* the largest register operand of an instruction sequence
MaxReg(is) ==
  CHOOSE m \in UNION {Operands(is[k]) : k \in DOMAIN is} :
    \A k \in DOMAIN is : \A r \in Operands(is[k]) : r <= m

\* the register an instruction leaves its result in
WrittenBy(i) == IF i.op = "Add" THEN i.dest ELSE i.r

\* the program is the single declaration `const <name> = <init>;`
IsSingleDecl(p) ==
  /\ p.k = "Block" /\ Len(p.kids) = 1
  /\ p.kids[1].k = "ConstDecl" /\ Len(p.kids[1].kids) = 1
DeclName(p) == p.kids[1].kids[1].n
DeclInit(p) == p.kids[1].kids[1].kids[1]

\* the program is the single expression statement `<e>;`
IsSingleStmt(p) == p.k = "Block" /\ Len(p.kids) = 1 /\ p.kids[1].k \in {"Num", "BinOp"}
StmtExpr(p) == p.kids[1]

\* out is what a new Compiler (res empty, next_free = 0) made of ast, and it
\* has just been run, to completion, by a VM that had run nothing before
FirstRunDone ==
  /\ status = "done"
  /\ runs = 1
  /\ hist[Len(hist)].entry = NewCompilerState.next_free

\* zero or more Ld / Add, then one Bind
LoadsAddsThenBind(is) ==
  /\ Len(is) >= 2
  /\ is[Len(is)].op = "Bind"
  /\ \A k \in 1..(Len(is) - 1) : is[k].op \in {"Ld", "Add"}

(***************************************************************************)
(* C1.  As stated: for every declaration `const x = e`, e a tree of        *)
(* numeric literals joined by + that fits the register file, compiling     *)
(* with a new vm/mod.rs Compiler and running on a new VM returns the sum   *)
(* of e's literals, and the code is Ld / Add instructions then the Bind.   *)
(* A lone literal refutes it: Bind clears register 0, which run() returns. *)
(***************************************************************************)
C1_AnyTreeYieldsItsSum ==
  (/\ impl = "Expr"
   /\ FirstRunDone
   /\ IsSingleDecl(ast)
   /\ IsPlusTree(DeclInit(ast))
   /\ AllInRange(out))
  => (/\ result = Number(Sum(DeclInit(ast)))
      /\ LoadsAddsThenBind(out))

(***************************************************************************)
(* C1, amended: the same for every e with at least one +.                  *)
(***************************************************************************)
C1_SumOfOperatorTree ==
  (/\ impl = "Expr"
   /\ FirstRunDone
   /\ IsSingleDecl(ast)
   /\ IsPlusTree(DeclInit(ast))
   /\ DeclInit(ast).k = "BinOp"
   /\ AllInRange(out))
  => (/\ result = Number(Sum(DeclInit(ast)))
      /\ LoadsAddsThenBind(out))

\* the tested program has been compiled and run: 12.1
C1_Witness ==
  /\ impl = "Expr"
  /\ FirstRunDone
  /\ ast = DeclOf("x", Tested)
  /\ result = Number(121)

(***************************************************************************)
(* C2.  For a declaration `name = init` the Bind names the register in     *)
(* which the code of init leaves its result, and after run() the           *)
(* environment binds name to the value of init.                            *)
(***************************************************************************)
C2_BindNamesResultRegister ==
  (/\ FirstRunDone
   /\ IsSingleDecl(ast)
   /\ IsPlusTree(DeclInit(ast))
   /\ AllInRange(out))
  => (/\ LoadsAddsThenBind(out)
      /\ out[Len(out)].r = WrittenBy(out[Len(out) - 1])
      /\ get_binding_value(env, DeclName(ast)) = Number(Sum(DeclInit(ast))))

(***************************************************************************)
(* C3.  Binding a name twice against one Environment never faults: the     *)
(* first Bind creates and initializes, every later one sets; the           *)
(* environment never holds two bindings of one name, and a read of the     *)
(* name returns the value of the latest Bind.                              *)
(***************************************************************************)
\* the positions in the call log of the calls of op for name
CallsOf(op, name) == {k \in DOMAIN calls : calls[k].op = op /\ calls[k].name = name}
\* the position of the latest call that gave name a value
LastWrite(name) ==
  CHOOSE k \in CallsOf("set_mutable_binding", name) \cup CallsOf("initialize_binding", name) :
    \A j \in CallsOf("set_mutable_binding", name) \cup CallsOf("initialize_binding", name) : j <= k

\* C3: no fault in a Bind, one binding per name, create then set, latest value read
C3_RebindOverwrites ==
  /\ fault = "run" => out[idx + 1].op # "Bind"
  /\ \A name \in Names :
       /\ BindingCount(env, name) <= 1
       /\ Cardinality(CallsOf("create_mutable_binding", name)) <= 1
       /\ Cardinality(CallsOf("initialize_binding", name)) <= 1
       /\ \A k \in CallsOf("set_mutable_binding", name) :
            \E j \in CallsOf("initialize_binding", name) : j < k
       /\ has_binding(env, name) <=> CallsOf("initialize_binding", name) # {}
       /\ has_binding(env, name) =>
            get_binding_value(env, name) = calls[LastWrite(name)].val

\* x was bound twice, to two different numbers, and reads as the second
C3_Witness ==
  /\ CallsOf("initialize_binding", "x") # {}
  /\ CallsOf("set_mutable_binding", "x") # {}
  /\ calls[LastWrite("x")].op = "set_mutable_binding"
  /\ get_binding_value(env, "x") = Number(2)
  /\ \E k \in CallsOf("initialize_binding", "x") : calls[k].val = Number(1)

(***************************************************************************)
(* C4.  Every register index the compiler emits is below the size of the   *)
(* register file, whatever the program; a program that needs more fails    *)
(* to compile and run() never indexes the register file out of bounds.     *)
(***************************************************************************)
C4_EmittedRegistersInRange ==
  /\ \A k \in DOMAIN hist : AllInRange(hist[k].out)
  /\ fault # "run"

(***************************************************************************)
(* C5.  Compiling a node kind outside the supported subset (numeric        *)
(* literal, binary addition, declaration list, block) hands an error back  *)
(* to the caller: the compilation neither aborts the process nor           *)
(* completes with instructions emitted for it.                             *)
(***************************************************************************)
RECURSIVE Supported(_)
Supported(e) ==
  /\ \/ e.k \in {"Num", "Int", "ConstDecl", "Block", "Binding"}
     \/ e.k = "BinOp" /\ e.op = "Add"
  /\ \A k \in DOMAIN e.kids : Supported(e.kids[k])

\* C5: no compile() aborts, and none completes on an unsupported node
C5_UnsupportedIsAnError ==
  /\ fault # "compile"
  /\ \A k \in DOMAIN hist : Supported(hist[k].ast)

(***************************************************************************)
(* C6.  Compiling the same AST twice gives the same instruction sequence,  *)
(* on a new Compiler or on the Compiler that did the first compile().      *)
(***************************************************************************)
C6_Deterministic ==
  \A j, k \in DOMAIN hist : hist[j].ast = hist[k].ast => hist[j].out = hist[k].out

(***************************************************************************)
(* C7.  When compile() is done with a tree, next_free is what it was       *)
(* before, so the next statement starts at the same register.              *)
(***************************************************************************)
C7_CursorRestored ==
  \A k \in DOMAIN hist : hist[k].exit = hist[k].entry

(***************************************************************************)
(* C8.  As stated: the code of a + tree of depth D compiled at cursor c    *)
(* uses registers up to exactly c + D - 1.  A tree nested to the left      *)
(* refutes it: (7 + 4) + 1.1 has depth 3 and uses registers 0 and 1.       *)
(***************************************************************************)
\* the completed compiles of `e;` or `const x = e;` with e a + tree
TreeCompiles ==
  {k \in DOMAIN hist :
     \/ IsSingleStmt(hist[k].ast) /\ IsPlusTree(StmtExpr(hist[k].ast))
     \/ IsSingleDecl(hist[k].ast) /\ IsPlusTree(DeclInit(hist[k].ast))}
\* the tree of such a program, and the instructions emitted for the tree
TreeOf(h) == IF IsSingleStmt(h.ast) THEN StmtExpr(h.ast) ELSE DeclInit(h.ast)
TreeCode(h) == IF IsSingleStmt(h.ast) THEN h.out ELSE SubSeq(h.out, 1, Len(h.out) - 1)

\* C8 as stated: the largest register of the tree's code is c + D - 1
C8_MaxRegisterIsDepth ==
  \A k \in TreeCompiles :
    MaxReg(TreeCode(hist[k])) = hist[k].entry + Depth(TreeOf(hist[k])) - 1

(***************************************************************************)
(* C8, amended: the largest register used is at most c + D - 1, and is     *)
(* c + D - 1 when the tree nests only to the right.                        *)
(***************************************************************************)
\* C8 amended: at most c + D - 1, and equal for a right-nested tree
C8_MaxRegisterWithinDepth ==
  \A k \in TreeCompiles :
    LET e == TreeOf(hist[k])
        top == hist[k].entry + Depth(e) - 1
    IN /\ MaxReg(TreeCode(hist[k])) <= top
       /\ RightNested(e) => MaxReg(TreeCode(hist[k])) = top

\* a left-nested tree of depth 3 was compiled at a cursor above 0 and stays
\* below the bound; a right-nested tree reaches it
C8_Witness ==
  \E j, k \in TreeCompiles :
    /\ TreeOf(hist[j]) = RChain(MaxChain - 1)
    /\ MaxReg(TreeCode(hist[j])) = hist[j].entry + MaxChain - 2
    /\ TreeOf(hist[k]) = LChain(3)
    /\ hist[k].entry > 0
    /\ MaxReg(TreeCode(hist[k])) = hist[k].entry + 1

(***************************************************************************)
(* C9.  A register consumed by Add or Bind reads undefined afterwards:     *)
(* Bind(r, name) leaves r undefined and hands the old value to the         *)
(* environment; Add{dest, src} leaves src undefined and old dest + old src *)
(* in dest; and a register that reads undefined keeps doing so until an    *)
(* instruction writes it.                                                  *)
(***************************************************************************)
\* run() completes the dispatch of the instruction at idx in this step
Dispatched == status = "running" /\ idx' # idx
\* the registers an instruction stores a value in
Stores(i) == IF i.op = "Bind" THEN {} ELSE {WrittenBy(i)}

C9_Step ==
  /\ (Dispatched /\ Cur.op = "Bind") =>
       /\ regs'[Cur.r] = undefined
       /\ calls'[Len(calls')].val = regs[Cur.r]
  /\ (Dispatched /\ Cur.op = "Add") =>
       /\ regs'[Cur.src] = undefined
       /\ regs'[Cur.dest] = ValueAdd(regs[Cur.dest], regs[Cur.src])
  /\ \A r \in Regs :
       (regs[r] = undefined /\ ~(Dispatched /\ r \in Stores(Cur)))
       => regs'[r] = undefined

\* C9: every step of the program clears what Add and Bind consume
C9_ConsumedRegistersCleared == [][C9_Step]_vars

\* an Add and then a Bind have run: the Add's src and the Bind's register
\* read undefined, and the environment got the number
C9_Witness ==
  /\ status = "running"
  /\ idx >= 4
  /\ out[idx].op = "Bind"
  /\ out[idx - 1].op = "Add"
  /\ out[idx].r = out[idx - 1].dest
  /\ regs[out[idx].r] = undefined
  /\ regs[out[idx - 1].src] = undefined
  /\ calls # <<>>
  /\ calls[Len(calls)].val.t = "number"

(***************************************************************************)
(* C10.  For a sequence whose operands are in range, run() dispatches the  *)
(* instructions 0 .. len-1 in index order, each once, each step applying   *)
(* the whole effect of one instruction; it eventually completes, after     *)
(* the last instruction, and returns register 0 as it then is.             *)
(***************************************************************************)
\* <<0, 1, ..., n-1>>
UpTo(n) == [k \in 1..n |-> k - 1]

C10_InOrder ==
  status \in {"running", "done"} => (idx <= Len(out) /\ trace = UpTo(idx))

C10_Completes ==
  (status = "running" /\ status' = "done")
  => (idx = Len(out) /\ trace = UpTo(Len(out)) /\ result' = regs[0] /\ regs' = regs)

\* C10: dispatch in index order, each once; completion; register 0 returned
C10_SequentialRun ==
  /\ []C10_InOrder
  /\ [][C10_Completes]_vars
  /\ (status = "running" /\ AllInRange(out)) ~> (status = "done")

\* a run of six instructions has completed
C10_Witness ==
  /\ status = "done"
  /\ Len(out) = 6
  /\ trace = <<0, 1, 2, 3, 4, 5>>
  /\ result = regs[0]
  /\ result.t = "number"

\* ---------------------------------------------------------------------
\* C11: when run() meets an operand that is not a register of the file, the
\* run ends Faulted and run() returns a fault value naming the index of the
\* offending instruction; it does not abort.
FaultValue(i) == [t |-> "fault", x |-> i]
C11_FaultStep ==
  (status = "running" /\ idx < Len(out) /\ ~InRange(Cur)) =>
     /\ status' = "faulted"
     /\ result' = FaultValue(idx)
C11_OutOfRangeIsReturnedFault == [][C11_FaultStep]_vars

\* ---------------------------------------------------------------------
\* the register file after the instructions is, started from rs (operands
\* all in range)
RECURSIVE RegsAfter(_, _)
RegsAfter(rs, is) ==
  IF is = <<>> THEN rs
  ELSE LET i == Head(is)
       IN RegsAfter(IF i.op = "Ld" THEN ExecLd(rs, i)
                    ELSE IF i.op = "Add" THEN ExecAdd(rs, i)
                    ELSE clear(rs, i.r),
                    Tail(is))
\* the value the Bind at position k of is (1-based) clears from its register
BoundAt(rs, is, k) == RegsAfter(rs, SubSeq(is, 1, k - 1))[is[k].r]
\* the positions, among the first n, of the Binds that are the last of their name
LastBinds(is, n) ==
  {k \in 1..n : /\ is[k].op = "Bind"
                /\ \A j \in (k + 1)..n : ~(is[j].op = "Bind" /\ is[j].ident = is[k].ident)}

\* C12: when run() has stopped at instruction idx on an operand out of range,
\* every name bound by a Bind before idx is still bound, to the value the
\* last such Bind gave it.
C12_FaultKeepsBindings ==
  (status = "panic" /\ fault = "run") =>
     \A k \in LastBinds(out, idx) :
        /\ has_binding(env, out[k].ident)
        /\ get_binding_value(env, out[k].ident) = BoundAt(start_regs, out, k)

\* a run stopped after `const y = 3` had bound y
C12_Witness ==
  /\ status = "panic" /\ fault = "run"
  /\ LastBinds(out, idx) # {}
  /\ ~InRange(out[idx + 1])
  /\ get_binding_value(env, "y") = Number(3)

\* ---------------------------------------------------------------------
\* C13: run() leaves the instruction sequence as it is, and a run of the
\* sequence the latest completed run executed, on the same VM, does not
\* stop on a fault and returns what that run returned.
C13_RerunStep ==
  /\ status = "running" => out' = out
  /\ (status = "running" /\ ran = out) =>
        /\ status' # "panic"
        /\ status' = "done" => result' = result
C13_RerunReturnsSame == [][C13_RerunStep]_vars

\* 7 + 4 + 1.1, compiled once, has been run twice and returned 12.1 twice
C13_Witness ==
  /\ status = "done" /\ runs = 2 /\ Len(hist) = 1
  /\ ran = out /\ start_regs # NewRegs
  /\ result = Number(121)

\* ---------------------------------------------------------------------
\* the layout for a tree of + at cursor d: a literal is one load into d; an
\* operator node is the code of its left operand at d, the code of its right
\* operand at d + 1, and one Add{dest: d, src: d + 1}
RECURSIVE EmittedFor(_, _)
EmittedFor(e, d) ==
  IF e.k = "BinOp"
  THEN EmittedFor(e.kids[1], d) \o EmittedFor(e.kids[2], d + 1) \o <<Add(d, d + 1)>>
  ELSE <<Ld(d, Number(e.v))>>

\* C14: the code emitted for a tree of + compiled at cursor d is the code of
\* L at d, then the code of R at d + 1, then one operator instruction with
\* dest = d and src = d + 1; a literal is exactly one load into register d.
C14_OperandsThenOperator ==
  \A k \in TreeCompiles :
     TreeCode(hist[k]) = EmittedFor(TreeOf(hist[k]), hist[k].entry)

\* (1 + 2) + (3 + 4) was compiled at cursor 0, and a literal on its own too
C14_Witness ==
  /\ \E k \in TreeCompiles :
        /\ TreeOf(hist[k]) = Balanced
        /\ hist[k].out = << Ld(0, Number(1)), Ld(1, Number(2)), Add(0, 1),
                            Ld(1, Number(3)), Ld(2, Number(4)), Add(1, 2),
                            Add(0, 1) >>
  /\ \E k \in TreeCompiles :
        TreeOf(hist[k]).k = "Num" /\ Len(TreeCode(hist[k])) = 1

\* ---------------------------------------------------------------------
\* the number of operator nodes of the program whose operator is +
RECURSIVE AddNodes(_)
RECURSIVE AddNodesIn(_)
AddNodes(e) ==
  (IF e.k = "BinOp" /\ e.op = "Add" THEN 1 ELSE 0) + AddNodesIn(e.kids)
AddNodesIn(es) ==
  IF es = <<>> THEN 0 ELSE AddNodes(Head(es)) + AddNodesIn(Tail(es))
\* the number of Add instructions of a sequence
AddCount(is) == Cardinality({j \in DOMAIN is : is[j].op = "Add"})

\* C15: every compiled program holds one Add for each of its operator nodes
\* whose operator is +, and no other Add: an operator node with another
\* operator never compiles to Add.
C15_AddOnlyForAddition ==
  \A k \in DOMAIN hist : AddCount(hist[k].out) = AddNodes(hist[k].ast)

\* ---------------------------------------------------------------------
\* the binding records the environment holds for name
BindingsOf(e, name) == SelectSeq(e, LAMBDA b : b.name = name)

\* C16: an instruction changes no register but its operands (r for Ld and
\* Bind, dest and src for Add), Ld and Add make no Environment call and
\* change no binding, Bind changes the binding of its name only, and no
\* instruction changes the number of registers or the instruction sequence.
C16_Step ==
  (status = "running" /\ idx < Len(out)) =>
     /\ \A r \in Regs \ Operands(Cur) : regs'[r] = regs[r]
     /\ DOMAIN regs' = 0..(NumRegs - 1)
     /\ out' = out
     /\ Cur.op \in {"Ld", "Add"} => env' = env /\ calls' = calls
     /\ Cur.op = "Bind" =>
          \A n \in Names \ {Cur.ident} : BindingsOf(env', n) = BindingsOf(env, n)
C16_OpcodeFrames == [][C16_Step]_vars

\* `const x = 1 + 2, y = 5;` has run: loads, an Add and two Binds, the second
\* with the binding of x in place
C16_Witness ==
  /\ status = "done" /\ idx = Len(out)
  /\ \E k \in DOMAIN out : out[k].op = "Add"
  /\ \E k \in DOMAIN out : out[k].op = "Ld"
  /\ BindingCount(env, "x") = 1
  /\ get_binding_value(env, "y") = Number(5)

\* ---------------------------------------------------------------------
Call(op, name, val) == [op |-> op, name |-> name, val |-> val]

\* C17: the Environment calls are made in instruction order: each Bind
\* appends its own calls to those made so far, has_binding(name) first, then
\* set_mutable_binding(name, val) alone when the name was bound, or
\* create_mutable_binding(name) and then initialize_binding(name, val) when it
\* was not, val being the value cleared from the Bind's register; no other
\* step makes a call.
C17_Step ==
  IF Dispatched /\ Cur.op = "Bind"
  THEN calls' = calls \o
         (IF has_binding(env, Cur.ident)
          THEN << Call("has_binding", Cur.ident, undefined),
                  Call("set_mutable_binding", Cur.ident, regs[Cur.r]) >>
          ELSE << Call("has_binding", Cur.ident, undefined),
                  Call("create_mutable_binding", Cur.ident, undefined),
                  Call("initialize_binding", Cur.ident, regs[Cur.r]) >>)
  ELSE calls' = calls
C17_CallsInInstructionOrder == [][C17_Step]_vars

\* `const x = 1; const x = 2;` has run: x unbound at the first Bind, bound at
\* the second
C17_Witness ==
  calls = << Call("has_binding", "x", undefined),
             Call("create_mutable_binding", "x", undefined),
             Call("initialize_binding", "x", Number(1)),
             Call("has_binding", "x", undefined),
             Call("set_mutable_binding", "x", Number(2)) >>

\* ---------------------------------------------------------------------
\* the latest run executed the code of a tree of +, compiled at cursor
\* entry_free, from registers undefined at and above that cursor
BalancedRunDone ==
  /\ status = "done" /\ ran = out
  /\ IsSingleStmt(ast) /\ IsPlusTree(StmtExpr(ast))
  /\ \A r \in Regs : r >= entry_free => start_regs[r] = undefined

\* C18: after such a run register d holds the value of the tree, every
\* register above d is undefined and every register below d is as it was;
\* and whenever an Add is about to execute, its dest and its src both hold
\* a number.
C18_BalancedEvaluation ==
  /\ BalancedRunDone =>
       /\ regs[entry_free] = Number(Sum(StmtExpr(ast)))
       /\ \A r \in Regs : r > entry_free => regs[r] = undefined
       /\ \A r \in Regs : r < entry_free => regs[r] = start_regs[r]
  /\ (status = "running" /\ idx < Len(out) /\ Cur.op = "Add" /\ InRange(Cur)) =>
       /\ regs[Cur.dest].t = "number"
       /\ regs[Cur.src].t = "number"

\* (1 + 2) + (3 + 4), compiled at cursor 1, has run on a VM whose register 0
\* held 6: register 1 holds 10, register 0 still 6, register 2 is undefined
C18_Witness ==
  /\ BalancedRunDone
  /\ StmtExpr(ast) = Balanced
  /\ entry_free = 1
  /\ start_regs[0] = Number(6)
  /\ regs[0] = Number(6) /\ regs[1] = Number(10) /\ regs[2] = undefined

====
